---- MODULE Spec2Model ----
(***************************************************************************)
(* Zone classification and weekly comparison engine (src/utils.py), as it  *)
(* is driven by main() (src/app.py).                                       *)
(*                                                                         *)
(* A DataFrame is a record [kind, columns, rows]; a row is a record        *)
(* [label, cells] where label is the pandas index label and cells maps     *)
(* each column name to a cell.  A numeric cell is [nan, v]: NaN is         *)
(* [nan |-> TRUE, v |-> 0]; every comparison with NaN is FALSE, as in      *)
(* pandas.  ID and Zone cells are strings, Zone_Changed is a boolean.      *)
(* Idle-times are whole percents; in SpecMain a rate is counted in         *)
(* thousandths, so that rounding to two decimals shows.                    *)
(*                                                                         *)
(* Spec runs the stages in the order of main() on two uploaded files, and  *)
(* also lets the comparison and the transition matrix be computed on       *)
(* frames that are not classified yet (the Direct actions).  SpecValidate  *)
(* applies validate_and_process_data to files with missing columns, nulls  *)
(* and out-of-range values; SpecClassify applies                           *)
(* apply_zone_classification to a validated row under every pair of        *)
(* references.  SpecReport applies generate_individual_report to merged    *)
(* tables, SpecMerge applies create_comparison_dataframe to tables that    *)
(* lack a column, and SpecMain runs main() pass after pass in one session. *)
(***************************************************************************)
EXTENDS Integers, Sequences, FiniteSets, TLC

\* ---------------------------------------------------------------- bounds
MaxRows == 2          \* rows per uploaded file in Spec
MaxRawRows == 3       \* rows of the uploaded file in SpecValidate
MaxRate == 3          \* largest rate / rate reference in SpecClassify
MaxIdle == 3          \* largest idle-time below the limit in SpecClassify
MaxReportRows == 2    \* rows per uploaded file in SpecReport
MaxMergeRows == 1     \* rows per table in SpecMerge
MaxMainRows == 2      \* rows per uploaded file in SpecMain

\* ------------------------------------------------------------ primitives
None == [kind |-> "None"]
Unset == [kind |-> "unset"]

NaN == [nan |-> TRUE, v |-> 0]
Num(n) == [nan |-> FALSE, v |-> n]
IsNull(c) == c.nan
Gt(c, x) == ~c.nan /\ c.v > x
Lt(c, x) == ~c.nan /\ c.v < x
Le(c, x) == ~c.nan /\ c.v <= x
Ge(c, x) == ~c.nan /\ c.v >= x
Sub(a, b) == IF a.nan \/ b.nan THEN NaN ELSE Num(a.v - b.v)

RECURSIVE Concat(_)
Concat(ss) == IF ss = <<>> THEN <<>> ELSE Head(ss) \o Concat(Tail(ss))

RECURSIVE SumSeq(_)
SumSeq(s) == IF s = <<>> THEN 0 ELSE Head(s) + SumSeq(Tail(s))

Range(s) == {s[i] : i \in 1..Len(s)}

\* ------------------------------------------------------------- constants
REQUIRED_COLUMNS == <<"User_Id", "Stow_Rate", "Turnaway_Percentage">>
COLUMN_MAPPINGS ==
    ("User_Id" :> "ID") @@ ("Stow_Rate" :> "RATES") @@ ("Turnaway_Percentage" :> "UIT")

Zone1 == "Zone 1: High Rate & High UIT"
Zone2 == "Zone 2: High Rate & Low UIT"
Zone3 == "Zone 3: Low Rate & High UIT"
Zone4 == "Zone 4: Low Rate & Low UIT"
ZONES == {Zone1, Zone2, Zone3, Zone4}

VARIABLES
    pc,                 \* the next stage of the processing pass
    last_week_file,     \* uploaded CSV of the last period: [columns, rows]
    current_week_file,  \* uploaded CSV of the current period
    df_last,            \* DataFrame of the last period, None, or Unset
    df_current,         \* DataFrame of the current period, None, or Unset
    user_rate,          \* rate reference
    user_uit,           \* idle-time reference
    comparison_df,      \* result of create_comparison_dataframe
    zone_transitions,   \* result of calculate_zone_transitions
    trends,             \* result of calculate_performance_trends
    messages,           \* st.error / st.warning calls of the pass, in order
    configured,         \* the references have been read (number_input widgets)
    reference_defaults, \* the value= defaults offered by the two widgets
    selected_worker,    \* the worker id chosen for the individual report
    worker_report,      \* result of generate_individual_report
    exported,           \* export_section(comparison_df) ran in this pass
    data_processed,     \* st.session_state.data_processed
    pass_aborted        \* history: an earlier pass of the session was aborted

\* what the stages of the comparison engine leave alone
session == <<configured, reference_defaults, selected_worker, worker_report, exported,
             data_processed, pass_aborted>>

vars == <<pc, last_week_file, current_week_file, df_last, df_current, user_rate,
          user_uit, comparison_df, zone_transitions, trends, messages, session>>

\* ------------------------------------------------------------- DataFrames
IsFrame(df) == df.kind = "DataFrame"
Frame(cols, rows) == [kind |-> "DataFrame", columns |-> cols, rows |-> rows]
Labels(df) == {df.rows[i].label : i \in 1..Len(df.rows)}
Column(df, c) == [i \in 1..Len(df.rows) |-> df.rows[i].cells[c]]

\* pd.read_csv: the rows of the file under a fresh RangeIndex 0..n-1
read_csv(file) ==
    Frame(file.columns,
          [i \in 1..Len(file.rows) |-> [label |-> i - 1, cells |-> file.rows[i]]])

\* mutant: only the first missing column is reported
missing_columns_first(df) ==
    LET all == SelectSeq(REQUIRED_COLUMNS, LAMBDA c : c \notin df.columns)
    IN  IF all = <<>> THEN <<>> ELSE <<Head(all)>>

\* [col for col in REQUIRED_COLUMNS if col not in df.columns]
missing_columns(df) ==
    SelectSeq(REQUIRED_COLUMNS, LAMBDA c : c \notin df.columns)

\* df.rename(columns=COLUMN_MAPPINGS)
NewName(c) == IF c \in DOMAIN COLUMN_MAPPINGS THEN COLUMN_MAPPINGS[c] ELSE c
rename(df) ==
    LET newcols == {NewName(c) : c \in df.columns}
        old(n) == CHOOSE c \in df.columns : NewName(c) = n
    IN  Frame(newcols,
              [i \in 1..Len(df.rows) |->
                  [label |-> df.rows[i].label,
                   cells |-> [n \in newcols |-> df.rows[i].cells[old(n)]]]])

\* df['RATES'].isnull().any() or df['UIT'].isnull().any()
has_nulls(df) ==
    \E i \in 1..Len(df.rows) :
        IsNull(df.rows[i].cells["RATES"]) \/ IsNull(df.rows[i].cells["UIT"])

\* mutant: dropna(subset=['RATES'])
dropna_rates_only(df) ==
    Frame(df.columns, SelectSeq(df.rows, LAMBDA r : ~IsNull(r.cells["RATES"])))

\* df.dropna(subset=['RATES', 'UIT']): index labels are kept
dropna(df) ==
    Frame(df.columns,
          SelectSeq(df.rows,
                    LAMBDA r : ~IsNull(r.cells["RATES"]) /\ ~IsNull(r.cells["UIT"])))

\* mutant: the upper limit of UIT is not checked
invalid_values_no_upper(df) ==
    \/ \E i \in 1..Len(df.rows) : Lt(df.rows[i].cells["RATES"], 0)
    \/ \E i \in 1..Len(df.rows) : Lt(df.rows[i].cells["UIT"], 0)

\* (df['RATES'] < 0).any() or (df['UIT'] < 0).any() or (df['UIT'] > 100).any()
invalid_values(df) ==
    \/ \E i \in 1..Len(df.rows) : Lt(df.rows[i].cells["RATES"], 0)
    \/ \E i \in 1..Len(df.rows) : Lt(df.rows[i].cells["UIT"], 0)
    \/ \E i \in 1..Len(df.rows) : Gt(df.rows[i].cells["UIT"], 100)

Msg(level, what, period, columns) ==
    [level |-> level, what |-> what, period |-> period, columns |-> columns]

\* validate_and_process_data(file, period): the returned value and the
\* messages it shows.  The cells of the rate and idle-time columns are numbers
\* or nulls; a file pd.read_csv cannot parse, or text in a metric column,
\* raises into the except branch (None) and is not part of the input sets.
validate_and_process_data(file, period) ==
    LET df == read_csv(file)
        missing == missing_columns(df)
    IN  IF missing # <<>>
        THEN [df |-> None,
              msgs |-> <<Msg("error", "missing_columns", period, missing)>>]
        ELSE LET renamed == rename(df)
                 nulls == has_nulls(renamed)
                 warn == IF nulls
                           THEN <<Msg("warning", "null_values", period, <<>>)>>
                           ELSE <<>>
                 cleaned == IF nulls THEN dropna(renamed) ELSE renamed
             IN  IF invalid_values(cleaned)
                 THEN [df |-> None,
                       msgs |-> warn \o <<Msg("error", "invalid_values", period, <<>>)>>]
                 ELSE [df |-> cleaned, msgs |-> warn]

\* ---------------------------------------------------------- classification
\* mutant: a rate equal to the reference counts as high
classify_zone_ge(row, rate, uit) ==
    IF Ge(row["RATES"], rate) /\ Gt(row["UIT"], uit) THEN Zone1
    ELSE IF Ge(row["RATES"], rate) /\ Le(row["UIT"], uit) THEN Zone2
    ELSE IF Lt(row["RATES"], rate) /\ Gt(row["UIT"], uit) THEN Zone3
    ELSE Zone4

\* classify_zone(row, user_rate, user_uit): the if / elif chain
classify_zone(row, rate, uit) ==
    IF Gt(row["RATES"], rate) /\ Gt(row["UIT"], uit) THEN Zone1
    ELSE IF Gt(row["RATES"], rate) /\ Le(row["UIT"], uit) THEN Zone2
    ELSE IF Le(row["RATES"], rate) /\ Gt(row["UIT"], uit) THEN Zone3
    ELSE Zone4

WithColumn(cells, c, val) ==
    [n \in (DOMAIN cells) \cup {c} |-> IF n = c THEN val ELSE cells[n]]

\* apply_zone_classification(df, user_rate, user_uit).  Any exception is
\* caught: st.error and None.  On a frame without rows df.apply(axis=1)
\* returns, depending on the pandas release, an empty Series (the Zone column
\* is added) or a copy of the frame (the column assignment raises):
\* emptyReduces picks between the two.
apply_zone_classification(df, rate, uit, emptyReduces) ==
    LET failed == [df |-> None,
                   msgs |-> <<Msg("error", "classification", "", <<>>)>>]
    IN  IF ~IsFrame(df) THEN failed
        ELSE IF df.rows = <<>>
        THEN IF emptyReduces
             THEN [df |-> Frame(df.columns \cup {"Zone"}, <<>>), msgs |-> <<>>]
             ELSE failed
        ELSE IF ~({"RATES", "UIT"} \subseteq df.columns) THEN failed
        ELSE [df |-> Frame(df.columns \cup {"Zone"},
                           [i \in 1..Len(df.rows) |->
                               [label |-> df.rows[i].label,
                                cells |-> WithColumn(df.rows[i].cells, "Zone",
                                             classify_zone(df.rows[i].cells, rate, uit))]]),
              msgs |-> <<>>]

\* ------------------------------------------------------------- comparison
MERGE_COLUMNS == {"ID", "RATES", "UIT", "Zone"}

\* mutant: how='left', a left row without a match is kept with null
\* current-period cells
merge_left(left, right) ==
    Concat([i \in 1..Len(left) |->
              LET hits == SelectSeq(right, LAMBDA r : r.cells["ID"] = left[i].cells["ID"])
              IN  IF hits = <<>>
                  THEN <<[l |-> left[i].cells,
                          r |-> [ID |-> left[i].cells["ID"], RATES |-> NaN, UIT |-> NaN,
                                 Zone |-> "NaN"]]>>
                  ELSE [j \in 1..Len(hits) |-> [l |-> left[i].cells, r |-> hits[j].cells]]])

\* pd.merge(left, right, on='ID', how='inner'): for every left row, in
\* order, one output row per right row with the same ID, in right order
merge_inner(left, right) ==
    Concat([i \in 1..Len(left) |->
              LET hits == SelectSeq(right, LAMBDA r : r.cells["ID"] = left[i].cells["ID"])
              IN  [j \in 1..Len(hits) |-> [l |-> left[i].cells, r |-> hits[j].cells]]])

\* mutant: the operands are swapped
rate_change_swapped(current_rate, last_rate) == Sub(last_rate, current_rate)

\* comparison_df['Rate_Change'] = comparison_df['Current_Rate'] - comparison_df['Last_Rate']
rate_change(current_rate, last_rate) == Sub(current_rate, last_rate)
\* comparison_df['UIT_Change'] = comparison_df['Current_UIT'] - comparison_df['Last_UIT']
uit_change(current_uit, last_uit) == Sub(current_uit, last_uit)
\* comparison_df['Zone_Changed'] = comparison_df['Zone'] != comparison_df['Last_Zone']
zone_changed(zone, last_zone) == zone # last_zone

COMPARISON_COLUMNS ==
    {"ID", "Last_Rate", "Last_UIT", "Last_Zone", "Current_Rate", "Current_UIT",
     "Zone", "Rate_Change", "UIT_Change", "Zone_Changed"}

ComparisonCells(p) ==
    [ID |-> p.l["ID"],
     Last_Rate |-> p.l["RATES"], Last_UIT |-> p.l["UIT"], Last_Zone |-> p.l["Zone"],
     Current_Rate |-> p.r["RATES"], Current_UIT |-> p.r["UIT"], Zone |-> p.r["Zone"],
     Rate_Change |-> rate_change(p.r["RATES"], p.l["RATES"]),
     UIT_Change |-> uit_change(p.r["UIT"], p.l["UIT"]),
     Zone_Changed |-> zone_changed(p.r["Zone"], p.l["Zone"])]

\* mutant: the columns are selected leniently, a table that lacks one gives
\* a comparison without rows
create_comparison_dataframe_lenient(last, current) ==
    IF ~IsFrame(last) \/ ~IsFrame(current)
    THEN [df |-> None, msgs |-> <<Msg("error", "comparison", "", <<>>)>>]
    ELSE IF ~(MERGE_COLUMNS \subseteq last.columns)
            \/ ~(MERGE_COLUMNS \subseteq current.columns)
    THEN [df |-> Frame(COMPARISON_COLUMNS, <<>>), msgs |-> <<>>]
    ELSE LET pairs == merge_inner(last.rows, current.rows)
         IN  [df |-> Frame(COMPARISON_COLUMNS,
                           [k \in 1..Len(pairs) |->
                               [label |-> k - 1, cells |-> ComparisonCells(pairs[k])]]),
              msgs |-> <<>>]

\* create_comparison_dataframe(df_last, df_current).  A missing column (or a
\* None argument) raises inside the try: st.error and None.
create_comparison_dataframe(last, current) ==
    IF ~IsFrame(last) \/ ~IsFrame(current)
       \/ ~(MERGE_COLUMNS \subseteq last.columns)
       \/ ~(MERGE_COLUMNS \subseteq current.columns)
    THEN [df |-> None, msgs |-> <<Msg("error", "comparison", "", <<>>)>>]
    ELSE LET pairs == merge_inner(last.rows, current.rows)
         IN  [df |-> Frame(COMPARISON_COLUMNS,
                           [k \in 1..Len(pairs) |->
                               [label |-> k - 1, cells |-> ComparisonCells(pairs[k])]]),
              msgs |-> <<>>]

\* ------------------------------------------------------------ transitions
All == "All"

ZoneAt(df, n) == (CHOOSE r \in Range(df.rows) : r.label = n).cells["Zone"]

\* pd.crosstab(df_last['Zone'], df_current['Zone'], margins=True).  The two
\* Series are aligned on their index: only the labels present in both are
\* tabulated, the last-period zone of label n against the current-period zone
\* of label n.  With no such label the pivot is empty and, depending on the
\* pandas release, adding the margins raises or the empty table is returned:
\* emptyRaises picks between the two.
crosstab(last, current, emptyRaises) ==
    LET common == Labels(last) \cap Labels(current)
        rowz == {ZoneAt(last, n) : n \in common}
        colz == {ZoneAt(current, n) : n \in common}
        count(r, c) ==
            Cardinality({n \in common :
                /\ r \in {All, ZoneAt(last, n)}
                /\ c \in {All, ZoneAt(current, n)}})
    IN  IF common = {}
        THEN IF emptyRaises THEN None
             ELSE [kind |-> "crosstab", index |-> {}, columns |-> {}, values |-> <<>>]
        ELSE [kind |-> "crosstab",
              index |-> rowz \cup {All},
              columns |-> colz \cup {All},
              values |-> [rc \in (rowz \cup {All}) \X (colz \cup {All}) |->
                             count(rc[1], rc[2])]]

\* calculate_zone_transitions(df_last, df_current): any exception (None
\* argument, no Zone column, the margins of an empty pivot) gives None
calculate_zone_transitions(last, current, emptyRaises) ==
    IF ~IsFrame(last) \/ ~IsFrame(current)
       \/ "Zone" \notin last.columns \/ "Zone" \notin current.columns
    THEN None
    ELSE crosstab(last, current, emptyRaises)

\* ----------------------------------------------------------------- trends
\* Series.mean(): the sum over the count of the non-null values, NaN (den = 0)
\* when there is none
Mean(cellseq) ==
    LET present == SelectSeq(cellseq, LAMBDA c : ~IsNull(c))
    IN  [num |-> SumSeq([i \in 1..Len(present) |-> present[i].v]),
         den |-> Len(present)]

\* mutant: an unchanged rate counts as improved
improved_overall_ge(df) ==
    Len(SelectSeq(df.rows,
                  LAMBDA r : Ge(r.cells["Rate_Change"], 0) /\ Lt(r.cells["UIT_Change"], 0)))

\* len(comparison_df[(Rate_Change > 0) & (UIT_Change < 0)])
improved_overall(df) ==
    Len(SelectSeq(df.rows,
                  LAMBDA r : Gt(r.cells["Rate_Change"], 0) /\ Lt(r.cells["UIT_Change"], 0)))

\* (comparison_df['Zone'] == comparison_df['Last_Zone']).mean() * 100
zone_stability(df) ==
    [num |-> 100 * Len(SelectSeq(df.rows,
                                 LAMBDA r : r.cells["Zone"] = r.cells["Last_Zone"])),
     den |-> Len(df.rows)]

\* calculate_performance_trends(comparison_df)
calculate_performance_trends(df) ==
    IF ~IsFrame(df)
       \/ ~({"Rate_Change", "UIT_Change", "Zone", "Last_Zone"} \subseteq df.columns)
    THEN None
    ELSE [kind |-> "dict",
          rate_trend |-> Mean(Column(df, "Rate_Change")),
          uit_trend |-> Mean(Column(df, "UIT_Change")),
          improved_overall |-> improved_overall(df),
          zone_stability |-> zone_stability(df)]

\* ------------------------------------------------------ individual report
REPORT_COLUMNS == {"ID", "Zone", "Last_Zone", "Rate_Change", "UIT_Change"}

\* mutant: an unchanged rate or idle-time is reported as an area to improve
improvement_areas_nonstrict(worker_data) ==
    (IF Le(worker_data["Rate_Change"], 0) THEN <<"Rate">> ELSE <<>>)
        \o (IF Ge(worker_data["UIT_Change"], 0) THEN <<"UIT">> ELSE <<>>)

\* report['Improvement_Areas']: 'Rate' is appended when Rate_Change < 0,
\* then 'UIT' when UIT_Change > 0
improvement_areas(worker_data) ==
    (IF Lt(worker_data["Rate_Change"], 0) THEN <<"Rate">> ELSE <<>>)
        \o (IF Gt(worker_data["UIT_Change"], 0) THEN <<"UIT">> ELSE <<>>)

\* generate_individual_report(worker_id, comparison_df): the returned value
\* and the messages it shows.  A None argument or a missing column raises
\* inside the try: st.error and None.  .iloc[0] is the first row of the
\* worker in table order.
generate_individual_report(worker_id, df) ==
    IF ~IsFrame(df) \/ ~(REPORT_COLUMNS \subseteq df.columns)
    THEN [report |-> None, msgs |-> <<Msg("error", "report", "", <<>>)>>]
    ELSE LET hits == SelectSeq(df.rows, LAMBDA r : r.cells["ID"] = worker_id)
         IN  IF hits = <<>>
             THEN [report |-> None, msgs |-> <<>>]
             ELSE LET worker_data == hits[1].cells
                  IN  [report |-> [kind |-> "dict",
                                   ID |-> worker_id,
                                   Current_Zone |-> worker_data["Zone"],
                                   Previous_Zone |-> worker_data["Last_Zone"],
                                   Rate_Change |-> worker_data["Rate_Change"],
                                   UIT_Change |-> worker_data["UIT_Change"],
                                   Improvement_Areas |-> improvement_areas(worker_data)],
                       msgs |-> <<>>]

\* ------------------------------------------------------ reference defaults
\* Series.median(): NaN without a value, else the middle value, or the mean
\* of the two middle values.  The values of a column of the files of SpecMain
\* are all odd or all even, so that this mean is a whole number of units.
median(cellseq) ==
    LET present == SelectSeq(cellseq, LAMBDA c : ~IsNull(c))
        sorted == SortSeq([i \in 1..Len(present) |-> present[i].v],
                          LAMBDA a, b : a < b)
        n == Len(sorted)
    IN  IF n = 0 THEN NaN
        ELSE IF n % 2 = 1 THEN Num(sorted[(n + 1) \div 2])
        ELSE Num((sorted[n \div 2] + sorted[n \div 2 + 1]) \div 2)

\* round(x, 2) of a rate counted in thousandths: the nearest multiple of ten
\* thousandths, NaN for NaN.  Half-way values go to the even hundredth; the
\* files of SpecMain give no half-way median.
round2(c) ==
    IF c.nan THEN NaN
    ELSE LET q == c.v \div 10
             r == c.v % 10
         IN  IF r < 5 \/ (r = 5 /\ q % 2 = 0) THEN Num(10 * q) ELSE Num(10 * (q + 1))

\* mutant: only the last period is tested
validation_failed_last_only(last, current) == last = None

\* if df_last is None or df_current is None: the test before the return
validation_failed(last, current) == last = None \/ current = None

\* ------------------------------------------------------------ input sets
SeqsUpTo(S, n) == UNION {[1..k -> S] : k \in 0..n}

RawRow(id, rate, uit) ==
    [User_Id |-> id, Stow_Rate |-> rate, Turnaway_Percentage |-> uit]

IDS == {"A", "B"}
\* (rate, idle-time) of the workers of Spec: each side of the references
Points == {<<3, 1>>, <<1, 3>>, <<3, 3>>}
RateRefs == {2}
UitRefs == {2}

\* the rows of the files of Spec: in range, some with a null rate
EngineRows ==
    {RawRow(id, Num(p[1]), Num(p[2])) : id \in IDS, p \in Points}
        \cup {RawRow("A", NaN, Num(1))}
EngineFiles ==
    {[columns |-> Range(REQUIRED_COLUMNS), rows |-> rows] :
        rows \in SeqsUpTo(EngineRows, MaxRows)}

\* the files of SpecValidate: any subset of the required columns, null,
\* negative and too large values
ValidateRates == {NaN, Num(-1), Num(2)}
ValidateUits == {NaN, Num(-1), Num(50), Num(101)}
ValidateRows(cols) ==
    {[c \in cols |-> full[c]] :
        full \in {RawRow("A", r, u) : r \in ValidateRates, u \in ValidateUits}}
ValidateFiles ==
    UNION {{[columns |-> cols, rows |-> rows] :
                rows \in SeqsUpTo(ValidateRows(cols), MaxRawRows)} :
           cols \in SUBSET Range(REQUIRED_COLUMNS)}

\* the validated one-row frames and the references of SpecClassify
ClassifyRates == 0..MaxRate
ClassifyUits == (0..MaxIdle) \cup {100}
ClassifyFrames ==
    {Frame({"ID", "RATES", "UIT"},
           <<[label |-> 0, cells |-> [ID |-> "A", RATES |-> Num(r), UIT |-> Num(u)]]>>) :
        r \in ClassifyRates, u \in ClassifyUits}

NoFile == [columns |-> {}, rows |-> <<>>]

\* ---------------------------------------------------------------- actions
Init ==
    /\ pc = "validate_last"
    /\ last_week_file \in EngineFiles
    /\ current_week_file \in EngineFiles
    /\ user_rate \in RateRefs
    /\ user_uit \in UitRefs
    /\ df_last = Unset
    /\ df_current = Unset
    /\ comparison_df = Unset
    /\ zone_transitions = Unset
    /\ trends = Unset
    /\ messages = <<>>
    /\ configured = TRUE
    /\ reference_defaults = Unset
    /\ selected_worker = Unset
    /\ worker_report = Unset
    /\ exported = FALSE
    /\ data_processed = FALSE
    /\ pass_aborted = FALSE

\* df_last = validate_and_process_data(last_week_file, "last_week")
ValidateLast ==
    /\ pc = "validate_last"
    /\ LET res == validate_and_process_data(last_week_file, "last_week")
       IN  /\ df_last' = res.df
           /\ messages' = messages \o res.msgs
    /\ pc' = "validate_current"
    /\ UNCHANGED <<last_week_file, current_week_file, df_current, user_rate, user_uit,
                   comparison_df, zone_transitions, trends>>
    /\ UNCHANGED session

\* df_current = validate_and_process_data(current_week_file, "current_week");
\* if either frame is None: st.error and return
ValidateCurrent ==
    /\ pc = "validate_current"
    /\ LET res == validate_and_process_data(current_week_file, "current_week")
           abort == validation_failed(df_last, res.df)
       IN  /\ df_current' = res.df
           /\ messages' = messages \o res.msgs \o
                  (IF abort THEN <<Msg("error", "validation", "", <<>>)>> ELSE <<>>)
           /\ pc' = IF abort THEN "done" ELSE "classify_last"
    /\ UNCHANGED <<last_week_file, current_week_file, df_last, user_rate, user_uit,
                   comparison_df, zone_transitions, trends>>
    /\ UNCHANGED session

\* mutant: the last period is classified against its own medians
ClassifyLast_own ==
    /\ pc = "classify_last"
    /\ configured
    /\ \E emptyReduces \in BOOLEAN :
         LET own_rate == median(Column(df_last, "RATES"))
             own_uit == median(Column(df_last, "UIT"))
             res == apply_zone_classification(df_last,
                        IF own_rate.nan THEN user_rate ELSE own_rate.v,
                        IF own_uit.nan THEN user_uit ELSE own_uit.v, emptyReduces)
         IN  /\ df_last' = res.df
             /\ messages' = messages \o res.msgs
    /\ pc' = "classify_current"
    /\ UNCHANGED <<last_week_file, current_week_file, df_current, user_rate, user_uit,
                   comparison_df, zone_transitions, trends>>
    /\ UNCHANGED session

\* df_last = apply_zone_classification(df_last, user_rate, user_uit)
ClassifyLast ==
    /\ pc = "classify_last"
    /\ configured
    /\ \E emptyReduces \in BOOLEAN :
         LET res == apply_zone_classification(df_last, user_rate, user_uit, emptyReduces)
         IN  /\ df_last' = res.df
             /\ messages' = messages \o res.msgs
    /\ pc' = "classify_current"
    /\ UNCHANGED <<last_week_file, current_week_file, df_current, user_rate, user_uit,
                   comparison_df, zone_transitions, trends>>
    /\ UNCHANGED session

\* df_current = apply_zone_classification(df_current, user_rate, user_uit);
\* with df_current None the zone selector raises and the pass ends
ClassifyCurrent ==
    /\ pc = "classify_current"
    /\ \E emptyReduces \in BOOLEAN :
         LET res == apply_zone_classification(df_current, user_rate, user_uit, emptyReduces)
         IN  /\ df_current' = res.df
             /\ messages' = messages \o res.msgs \o
                    (IF res.df = None THEN <<Msg("error", "processing", "", <<>>)>> ELSE <<>>)
             /\ pc' = IF res.df = None THEN "done" ELSE "merge"
    /\ UNCHANGED <<last_week_file, current_week_file, df_last, user_rate, user_uit,
                   comparison_df, zone_transitions, trends>>
    /\ UNCHANGED session

\* comparison_df = create_comparison_dataframe(df_last, df_current); with
\* None the analyses are skipped and the flag of the session is set next
CreateComparison ==
    /\ pc = "merge"
    /\ LET res == create_comparison_dataframe(df_last, df_current)
       IN  /\ comparison_df' = res.df
           /\ messages' = messages \o res.msgs
           /\ pc' = IF res.df = None THEN "finish" ELSE "trends"
    /\ UNCHANGED <<last_week_file, current_week_file, df_last, df_current, user_rate,
                   user_uit, zone_transitions, trends>>
    /\ UNCHANGED session

\* display_trend_analysis(comparison_df): trends = calculate_performance_trends(...)
TrendAnalysis ==
    /\ pc = "trends"
    /\ trends' = calculate_performance_trends(comparison_df)
    /\ pc' = "transitions"
    /\ UNCHANGED <<last_week_file, current_week_file, df_last, df_current, user_rate,
                   user_uit, comparison_df, zone_transitions, messages>>
    /\ UNCHANGED session

\* zone_transitions = calculate_zone_transitions(df_last, df_current)
ZoneTransitions ==
    /\ pc = "transitions"
    /\ \E emptyRaises \in BOOLEAN :
         zone_transitions' = calculate_zone_transitions(df_last, df_current, emptyRaises)
    /\ pc' = "report"
    /\ UNCHANGED <<last_week_file, current_week_file, df_last, df_current, user_rate,
                   user_uit, comparison_df, trends, messages>>
    /\ UNCHANGED session

\* create_comparison_dataframe called on frames that are not classified yet
CreateComparisonDirect ==
    /\ pc \in {"classify_last", "classify_current"}
    /\ LET res == create_comparison_dataframe(df_last, df_current)
       IN  /\ comparison_df' = res.df
           /\ messages' = messages \o res.msgs
    /\ pc' = "done"
    /\ UNCHANGED <<last_week_file, current_week_file, df_last, df_current, user_rate,
                   user_uit, zone_transitions, trends>>
    /\ UNCHANGED session

\* calculate_zone_transitions called on frames that are not classified yet
ZoneTransitionsDirect ==
    /\ pc \in {"classify_last", "classify_current"}
    /\ \E emptyRaises \in BOOLEAN :
         zone_transitions' = calculate_zone_transitions(df_last, df_current, emptyRaises)
    /\ pc' = "done"
    /\ UNCHANGED <<last_week_file, current_week_file, df_last, df_current, user_rate,
                   user_uit, comparison_df, trends, messages>>
    /\ UNCHANGED session

Next ==
    \/ ValidateLast
    \/ ValidateCurrent
    \/ ClassifyLast
    \/ ClassifyCurrent
    \/ CreateComparison
    \/ TrendAnalysis
    \/ ZoneTransitions
    \/ CreateComparisonDirect
    \/ ZoneTransitionsDirect

Spec == Init /\ [][Next]_vars

\* validate_and_process_data alone, on every file of ValidateFiles
InitValidate ==
    /\ pc = "validate_last"
    /\ last_week_file \in ValidateFiles
    /\ current_week_file = NoFile
    /\ user_rate = 0
    /\ user_uit = 0
    /\ df_last = Unset
    /\ df_current = Unset
    /\ comparison_df = Unset
    /\ zone_transitions = Unset
    /\ trends = Unset
    /\ messages = <<>>
    /\ configured = TRUE
    /\ reference_defaults = Unset
    /\ selected_worker = Unset
    /\ worker_report = Unset
    /\ exported = FALSE
    /\ data_processed = FALSE
    /\ pass_aborted = FALSE

SpecValidate == InitValidate /\ [][ValidateLast]_vars

\* apply_zone_classification alone, on a validated one-row frame
InitClassify ==
    /\ pc = "classify_last"
    /\ last_week_file = NoFile
    /\ current_week_file = NoFile
    /\ user_rate \in ClassifyRates
    /\ user_uit \in ClassifyUits
    /\ df_last \in ClassifyFrames
    /\ df_current = Unset
    /\ comparison_df = Unset
    /\ zone_transitions = Unset
    /\ trends = Unset
    /\ messages = <<>>
    /\ configured = TRUE
    /\ reference_defaults = Unset
    /\ selected_worker = Unset
    /\ worker_report = Unset
    /\ exported = FALSE
    /\ data_processed = FALSE
    /\ pass_aborted = FALSE

SpecClassify == InitClassify /\ [][ClassifyLast]_vars

\* ------------------------------------------------- individual report: runs
\* comparison_df['ID'].unique(): the options of the worker selectbox
unique(df, c) == {df.rows[i].cells[c] : i \in 1..Len(df.rows)}

\* the worker selectbox and generate_individual_report(selected_worker,
\* comparison_df) in main(); without an option the selectbox returns None
\* and the report is skipped
IndividualReport ==
    /\ pc = "report"
    /\ IsFrame(comparison_df)
    /\ IF comparison_df.rows = <<>>
       THEN /\ selected_worker' = None
            /\ UNCHANGED <<worker_report, messages>>
       ELSE \E worker_id \in unique(comparison_df, "ID") :
               LET res == generate_individual_report(worker_id, comparison_df)
               IN  /\ selected_worker' = worker_id
                   /\ worker_report' = res.report
                   /\ messages' = messages \o res.msgs
    /\ pc' = "export"
    /\ UNCHANGED <<last_week_file, current_week_file, df_last, df_current, user_rate,
                   user_uit, comparison_df, zone_transitions, trends>>
    /\ UNCHANGED <<configured, reference_defaults, exported, data_processed, pass_aborted>>

\* the worker ids a caller asks for: "C" is in no file
ReportIds == IDS \cup {"C"}

\* generate_individual_report called with any worker id
IndividualReportDirect ==
    /\ pc = "report"
    /\ \E worker_id \in ReportIds :
         LET res == generate_individual_report(worker_id, comparison_df)
         IN  /\ selected_worker' = worker_id
             /\ worker_report' = res.report
             /\ messages' = messages \o res.msgs
    /\ pc' = "done"
    /\ UNCHANGED <<last_week_file, current_week_file, df_last, df_current, user_rate,
                   user_uit, comparison_df, zone_transitions, trends>>
    /\ UNCHANGED <<configured, reference_defaults, exported, data_processed, pass_aborted>>

\* the files of SpecReport: a worker with up to three different rows, and a
\* second worker
ReportRows ==
    {RawRow("A", Num(p[1]), Num(p[2])) : p \in Points} \cup {RawRow("B", Num(3), Num(3))}
ReportFiles ==
    {[columns |-> Range(REQUIRED_COLUMNS), rows |-> rows] :
        rows \in SeqsUpTo(ReportRows, MaxReportRows)}

\* two files, validated, classified and merged
InitCompared ==
    /\ last_week_file \in ReportFiles
    /\ current_week_file \in ReportFiles
    /\ user_rate \in RateRefs
    /\ user_uit \in UitRefs
    /\ \E emptyReduces \in BOOLEAN :
          /\ df_last = apply_zone_classification(
                           validate_and_process_data(last_week_file, "last_week").df,
                           user_rate, user_uit, emptyReduces).df
          /\ df_current = apply_zone_classification(
                              validate_and_process_data(current_week_file, "current_week").df,
                              user_rate, user_uit, emptyReduces).df

InitReport ==
    /\ pc = "report"
    /\ InitCompared
    /\ comparison_df = create_comparison_dataframe(df_last, df_current).df
    /\ zone_transitions = Unset
    /\ trends = Unset
    /\ messages = <<>>
    /\ configured = TRUE
    /\ reference_defaults = Unset
    /\ selected_worker = Unset
    /\ worker_report = Unset
    /\ exported = FALSE
    /\ data_processed = FALSE
    /\ pass_aborted = FALSE

NextReport == IndividualReport \/ IndividualReportDirect

SpecReport == InitReport /\ [][NextReport]_vars

\* ------------------------------------------------------------ merge: runs
\* the columns a table handed to create_comparison_dataframe may lack
DroppedColumns == {{}, {"ID"}, {"Zone"}}

Without(df, cols) ==
    IF ~IsFrame(df) THEN df
    ELSE Frame(df.columns \ cols,
               [i \in 1..Len(df.rows) |->
                   [label |-> df.rows[i].label,
                    cells |-> [c \in (DOMAIN df.rows[i].cells) \ cols |->
                                  df.rows[i].cells[c]]]])

\* the files behind the tables of SpecMerge
MergeRows ==
    {RawRow("A", Num(3), Num(1)), RawRow("A", Num(1), Num(3)), RawRow("B", Num(3), Num(3))}
MergeFiles ==
    {[columns |-> Range(REQUIRED_COLUMNS), rows |-> rows] :
        rows \in SeqsUpTo(MergeRows, MaxMergeRows)}

InitMerge ==
    /\ pc = "merge"
    /\ last_week_file \in MergeFiles
    /\ current_week_file \in MergeFiles
    /\ user_rate \in RateRefs
    /\ user_uit \in UitRefs
    /\ \E dropped_last \in DroppedColumns, dropped_current \in DroppedColumns :
          /\ df_last = Without(apply_zone_classification(
                                   validate_and_process_data(last_week_file, "last_week").df,
                                   user_rate, user_uit, TRUE).df, dropped_last)
          /\ df_current = Without(apply_zone_classification(
                                      validate_and_process_data(current_week_file,
                                                                "current_week").df,
                                      user_rate, user_uit, TRUE).df, dropped_current)
    /\ comparison_df = Unset
    /\ zone_transitions = Unset
    /\ trends = Unset
    /\ messages = <<>>
    /\ configured = TRUE
    /\ reference_defaults = Unset
    /\ selected_worker = Unset
    /\ worker_report = Unset
    /\ exported = FALSE
    /\ data_processed = FALSE
    /\ pass_aborted = FALSE

SpecMerge == InitMerge /\ [][CreateComparison]_vars

\* ---------------------------------------------------------- session: runs
\* the rows of the files of SpecMain: rates of 3.004 and 1.000, idle-times of
\* 1 and 3 percent
MainRows ==
    {RawRow("A", Num(3004), Num(1)), RawRow("A", Num(1000), Num(3)),
     RawRow("B", Num(3004), Num(3))}
\* files that pass the validation, the one without rows included
GoodFiles ==
    {[columns |-> Range(REQUIRED_COLUMNS), rows |-> rows] :
        rows \in SeqsUpTo(MainRows, MaxMainRows)}
\* a file without the idle-time column, and one with an idle-time above 100
BadFiles ==
    {[columns |-> {"User_Id", "Stow_Rate"}, rows |-> <<>>],
     [columns |-> Range(REQUIRED_COLUMNS), rows |-> <<RawRow("A", Num(3), Num(101))>>]}
\* what a file_uploader returns: None until a file is uploaded
Uploads == GoodFiles \cup BadFiles \cup {None}
\* the references the user types in place of the defaults
TypedRates == {2000}
TypedUits == {2}

\* a rerun of the script: the locals of the pass before are gone, the
\* session state stays (data_processed is set to False only when absent)
NewPass_reset ==
    /\ pc = "done"
    /\ pc' = "load_files"
    /\ df_last' = Unset
    /\ df_current' = Unset
    /\ user_rate' = 0
    /\ user_uit' = 0
    /\ comparison_df' = Unset
    /\ zone_transitions' = Unset
    /\ trends' = Unset
    /\ messages' = <<>>
    /\ configured' = FALSE
    /\ reference_defaults' = Unset
    /\ selected_worker' = Unset
    /\ worker_report' = Unset
    /\ exported' = FALSE
    /\ data_processed' = FALSE
    /\ pass_aborted' =
          (pass_aborted \/ \E i \in 1..Len(messages) :
                              messages[i].what \in {"validation", "processing", "comparison"})
    /\ last_week_file' = None
    /\ current_week_file' = None

NewPass ==
    /\ pc = "done"
    /\ pc' = "load_files"
    /\ df_last' = Unset
    /\ df_current' = Unset
    /\ user_rate' = 0
    /\ user_uit' = 0
    /\ comparison_df' = Unset
    /\ zone_transitions' = Unset
    /\ trends' = Unset
    /\ messages' = <<>>
    /\ configured' = FALSE
    /\ reference_defaults' = Unset
    /\ selected_worker' = Unset
    /\ worker_report' = Unset
    /\ exported' = FALSE
    /\ pass_aborted' =
          (pass_aborted \/ \E i \in 1..Len(messages) :
                              messages[i].what \in {"validation", "processing", "comparison"})
    /\ last_week_file' = None
    /\ current_week_file' = None
    /\ UNCHANGED data_processed

\* last_week_file, current_week_file = load_files(), and the test that both
\* are there
LoadFiles ==
    /\ pc = "load_files"
    /\ last_week_file' \in Uploads
    /\ current_week_file' \in Uploads
    /\ pc' = IF last_week_file' # None /\ current_week_file' # None
             THEN "validate_last" ELSE "done"
    /\ UNCHANGED <<df_last, df_current, user_rate, user_uit, comparison_df,
                   zone_transitions, trends, messages>>
    /\ UNCHANGED session

\* the two st.number_input widgets: the defaults are the medians of the
\* current period, rounded to two decimals (which leaves the median of whole
\* percents as it is); the user keeps a default or types a reference.  On a
\* current period without rows the default is NaN and the user types one.
\* Without a current table df_current['RATES'] raises into the except of
\* main(): st.error and the pass is over.
Configure ==
    /\ pc = "classify_last"
    /\ ~configured
    /\ IF ~IsFrame(df_current)
       THEN /\ messages' = messages \o <<Msg("error", "processing", "", <<>>)>>
            /\ pc' = "done"
            /\ UNCHANGED <<reference_defaults, user_rate, user_uit>>
       ELSE LET defaults == [rate |-> round2(median(Column(df_current, "RATES"))),
                             uit |-> median(Column(df_current, "UIT"))]
            IN  /\ reference_defaults' = defaults
                /\ user_rate' \in (IF defaults.rate.nan THEN {} ELSE {defaults.rate.v})
                                      \cup TypedRates
                /\ user_uit' \in (IF defaults.uit.nan THEN {} ELSE {defaults.uit.v})
                                     \cup TypedUits
                /\ UNCHANGED <<pc, messages>>
    /\ configured' = TRUE
    /\ UNCHANGED <<last_week_file, current_week_file, df_last, df_current,
                   comparison_df, zone_transitions, trends>>
    /\ UNCHANGED <<selected_worker, worker_report, exported, data_processed, pass_aborted>>

\* export_section(comparison_df)
Export ==
    /\ pc = "export"
    /\ exported' = TRUE
    /\ pc' = "finish"
    /\ UNCHANGED <<last_week_file, current_week_file, df_last, df_current, user_rate,
                   user_uit, comparison_df, zone_transitions, trends, messages>>
    /\ UNCHANGED <<configured, reference_defaults, selected_worker, worker_report,
                   data_processed, pass_aborted>>

\* st.session_state.data_processed = True, the last statement of the try
FinishPass ==
    /\ pc = "finish"
    /\ data_processed' = TRUE
    /\ pc' = "done"
    /\ UNCHANGED <<last_week_file, current_week_file, df_last, df_current, user_rate,
                   user_uit, comparison_df, zone_transitions, trends, messages>>
    /\ UNCHANGED <<configured, reference_defaults, selected_worker, worker_report,
                   exported, pass_aborted>>

\* the first run of a session: nothing is uploaded yet
InitMain ==
    /\ pc = "load_files"
    /\ last_week_file = None
    /\ current_week_file = None
    /\ user_rate = 0
    /\ user_uit = 0
    /\ df_last = Unset
    /\ df_current = Unset
    /\ comparison_df = Unset
    /\ zone_transitions = Unset
    /\ trends = Unset
    /\ messages = <<>>
    /\ configured = FALSE
    /\ reference_defaults = Unset
    /\ selected_worker = Unset
    /\ worker_report = Unset
    /\ exported = FALSE
    /\ data_processed = FALSE
    /\ pass_aborted = FALSE

NextMain ==
    \/ NewPass
    \/ LoadFiles
    \/ ValidateLast
    \/ ValidateCurrent
    \/ Configure
    \/ ClassifyLast
    \/ ClassifyCurrent
    \/ CreateComparison
    \/ TrendAnalysis
    \/ ZoneTransitions
    \/ IndividualReport
    \/ Export
    \/ FinishPass

SpecMain == InitMain /\ [][NextMain]_vars

\* ================================================================ claims
Classified(df) == IsFrame(df) /\ "Zone" \in df.columns
RowsOf(df) == 1..Len(df.rows)

\* C1: every classified row carries exactly the zone whose predicate holds:
\* Zone 1 iff rate > rate_ref and idle > idle_ref, Zone 2 iff rate > rate_ref
\* and idle <= idle_ref, Zone 3 iff rate <= rate_ref and idle > idle_ref,
\* Zone 4 iff rate <= rate_ref and idle <= idle_ref (a tie is on the low side).
C1_ZonePartition ==
    (pc = "classify_current" /\ Classified(df_last)) =>
        \A i \in RowsOf(df_last) :
            LET rate == df_last.rows[i].cells["RATES"].v
                idle == df_last.rows[i].cells["UIT"].v
                zone == df_last.rows[i].cells["Zone"]
            IN  /\ zone \in ZONES
                /\ (zone = Zone1) <=> (rate > user_rate /\ idle > user_uit)
                /\ (zone = Zone2) <=> (rate > user_rate /\ idle <= user_uit)
                /\ (zone = Zone3) <=> (rate <= user_rate /\ idle > user_uit)
                /\ (zone = Zone4) <=> (rate <= user_rate /\ idle <= user_uit)

\* a row equal to both references has been classified, as Zone 4
C1_Witness ==
    /\ pc = "classify_current"
    /\ Classified(df_last)
    /\ \E i \in RowsOf(df_last) :
          /\ df_last.rows[i].cells["RATES"].v = user_rate
          /\ df_last.rows[i].cells["UIT"].v = user_uit
          /\ df_last.rows[i].cells["Zone"] = Zone4

IdsOf(df) == {df.rows[i].cells["ID"] : i \in RowsOf(df)}
CountId(df, id) == Cardinality({i \in RowsOf(df) : df.rows[i].cells["ID"] = id})
Merged == IsFrame(comparison_df) /\ Classified(df_last) /\ Classified(df_current)
UniqueIds(df) == \A id \in IdsOf(df) : CountId(df, id) = 1

\* C2 as stated: the comparison table has one row per distinct worker id
\* present in both tables, also when an id occurs in several rows of a table.
C2_Original ==
    Merged =>
        /\ Len(comparison_df.rows) = Cardinality(IdsOf(df_last) \cap IdsOf(df_current))
        /\ IdsOf(comparison_df) \subseteq IdsOf(df_last) \cap IdsOf(df_current)
        /\ UniqueIds(comparison_df)

\* C2 amended: the comparison table has, for every worker id, as many rows
\* as the product of the id's row counts in the two tables, and no row for an
\* id absent from either table; when no id is repeated within a table this is
\* one row per distinct id present in both.
C2_MergeRowCount ==
    Merged =>
        /\ \A id \in IDS :
              CountId(comparison_df, id) = CountId(df_last, id) * CountId(df_current, id)
        /\ IdsOf(comparison_df) \subseteq IdsOf(df_last) \cap IdsOf(df_current)
        /\ (UniqueIds(df_last) /\ UniqueIds(df_current)) =>
              /\ Len(comparison_df.rows)
                    = Cardinality(IdsOf(df_last) \cap IdsOf(df_current))
              /\ UniqueIds(comparison_df)

\* a merge of two tables with unique ids, one id shared and one id present in
\* the last period only
C2_Witness ==
    /\ Merged
    /\ UniqueIds(df_last) /\ UniqueIds(df_current)
    /\ Len(comparison_df.rows) = 1
    /\ IdsOf(df_last) \ IdsOf(df_current) # {}

\* C3: in every comparison row Rate_Change = Current_Rate - Last_Rate,
\* UIT_Change = Current_UIT - Last_UIT, Zone_Changed holds exactly when the
\* current zone differs from the last zone, and the Last_* / Current_* values
\* are those of a last-period row and a current-period row with the row's id.
C3_ComparisonRow ==
    Merged =>
        \A k \in RowsOf(comparison_df) :
            LET c == comparison_df.rows[k].cells
            IN  /\ ~c["Rate_Change"].nan /\ ~c["UIT_Change"].nan
                /\ c["Rate_Change"].v = c["Current_Rate"].v - c["Last_Rate"].v
                /\ c["UIT_Change"].v = c["Current_UIT"].v - c["Last_UIT"].v
                /\ c["Zone_Changed"] = (c["Zone"] # c["Last_Zone"])
                /\ \E i \in RowsOf(df_last) :
                      /\ df_last.rows[i].cells["ID"] = c["ID"]
                      /\ df_last.rows[i].cells["RATES"] = c["Last_Rate"]
                      /\ df_last.rows[i].cells["UIT"] = c["Last_UIT"]
                      /\ df_last.rows[i].cells["Zone"] = c["Last_Zone"]
                /\ \E j \in RowsOf(df_current) :
                      /\ df_current.rows[j].cells["ID"] = c["ID"]
                      /\ df_current.rows[j].cells["RATES"] = c["Current_Rate"]
                      /\ df_current.rows[j].cells["UIT"] = c["Current_UIT"]
                      /\ df_current.rows[j].cells["Zone"] = c["Zone"]

\* a comparison row whose rate rose, whose idle-time fell and whose zone changed
C3_Witness ==
    /\ Merged
    /\ \E k \in RowsOf(comparison_df) :
          /\ comparison_df.rows[k].cells["Rate_Change"].v > 0
          /\ comparison_df.rows[k].cells["UIT_Change"].v < 0
          /\ comparison_df.rows[k].cells["Zone_Changed"]

\* --- validate_and_process_data (SpecValidate)
Validated == pc = "validate_current"
HasRequired(file) == Range(REQUIRED_COLUMNS) \subseteq file.columns
FileRows(file) == 1..Len(file.rows)
NullRow(row) == row["Stow_Rate"].nan \/ row["Turnaway_Percentage"].nan
BadRow(row) ==
    \/ row["Stow_Rate"].v < 0
    \/ row["Turnaway_Percentage"].v < 0
    \/ row["Turnaway_Percentage"].v > 100
KeptRows(file) == {i \in FileRows(file) : ~NullRow(file.rows[i])}

\* C4: a file with the required fields is rejected as a whole exactly when a
\* row without nulls has rate < 0, idle < 0 or idle > 100; a bad value in a
\* row dropped for a null does not reject it.
C4_RangeRejection ==
    (Validated /\ HasRequired(last_week_file)) =>
        ((df_last = None) <=>
            \E i \in KeptRows(last_week_file) : BadRow(last_week_file.rows[i]))

\* a file whose only out-of-range value sits in a row with a null rate was
\* accepted
C4_Witness ==
    /\ Validated
    /\ HasRequired(last_week_file)
    /\ IsFrame(df_last)
    /\ \E i \in FileRows(last_week_file) :
          /\ last_week_file.rows[i]["Stow_Rate"].nan
          /\ ~last_week_file.rows[i]["Turnaway_Percentage"].nan
          /\ last_week_file.rows[i]["Turnaway_Percentage"].v > 100

\* C5: a file with the required fields whose rows without nulls are in range
\* yields a table of exactly the rows without a null rate or idle-time, in
\* file order, with their values unchanged.
C5_NullRowsDropped ==
    (/\ Validated
     /\ HasRequired(last_week_file)
     /\ \A i \in KeptRows(last_week_file) : ~BadRow(last_week_file.rows[i])) =>
        /\ IsFrame(df_last)
        /\ Len(df_last.rows) = Cardinality(KeptRows(last_week_file))
        /\ \A k \in RowsOf(df_last) :
              LET i == df_last.rows[k].label + 1
              IN  /\ i \in KeptRows(last_week_file)
                  /\ df_last.rows[k].cells["ID"] = last_week_file.rows[i]["User_Id"]
                  /\ df_last.rows[k].cells["RATES"] = last_week_file.rows[i]["Stow_Rate"]
                  /\ df_last.rows[k].cells["UIT"]
                        = last_week_file.rows[i]["Turnaway_Percentage"]
        /\ \A k \in RowsOf(df_last) : \A m \in RowsOf(df_last) :
              k < m => df_last.rows[k].label < df_last.rows[m].label

\* a file with a null idle-time row between two complete rows was validated:
\* two rows are left
C5_Witness ==
    /\ Validated
    /\ HasRequired(last_week_file)
    /\ IsFrame(df_last)
    /\ Len(last_week_file.rows) = 3
    /\ ~NullRow(last_week_file.rows[1])
    /\ last_week_file.rows[2]["Turnaway_Percentage"].nan
    /\ ~NullRow(last_week_file.rows[3])
    /\ Len(df_last.rows) = 2

MissingRequired(file) == Range(REQUIRED_COLUMNS) \ file.columns

\* C6: a file lacking a required field gives None and exactly one message, an
\* error naming exactly the missing fields, whatever its rows hold (no null
\* warning, no range error).
C6_MissingColumns ==
    (Validated /\ MissingRequired(last_week_file) # {}) =>
        /\ df_last = None
        /\ Len(messages) = 1
        /\ messages[1].level = "error"
        /\ messages[1].what = "missing_columns"
        /\ Range(messages[1].columns) = MissingRequired(last_week_file)
        /\ Len(messages[1].columns) = Cardinality(MissingRequired(last_week_file))

\* a file without the rate and the id field, holding an idle-time of 101 and
\* a null one, was rejected for its columns
C6_Witness ==
    /\ Validated
    /\ MissingRequired(last_week_file) = {"User_Id", "Stow_Rate"}
    /\ \E i \in FileRows(last_week_file) :
          Gt(last_week_file.rows[i]["Turnaway_Percentage"], 100)
    /\ \E i \in FileRows(last_week_file) :
          last_week_file.rows[i]["Turnaway_Percentage"].nan
    /\ df_last = None
    /\ Len(messages) = 1

\* --- calculate_zone_transitions (Spec)
IsMatrix(m) == m.kind = "crosstab"
Tabulated == pc \in {"report", "done"} /\ zone_transitions # Unset
ZonesOf(df) == {df.rows[i].cells["Zone"] : i \in RowsOf(df)}
\* the workers whose last-period zone is r and whose current-period zone is c
WorkersMoving(r, c) ==
    {w \in IDS :
        /\ \E i \in RowsOf(df_last) :
              df_last.rows[i].cells["ID"] = w /\ df_last.rows[i].cells["Zone"] = r
        /\ \E j \in RowsOf(df_current) :
              df_current.rows[j].cells["ID"] = w /\ df_current.rows[j].cells["Zone"] = c}

\* C7: every cell (r, c) of the transition matrix is the number of workers
\* whose last-period zone is r and whose current-period zone is c, whatever
\* the row order of the two tables and the rows validation removed.
C7_Original ==
    (Tabulated /\ IsMatrix(zone_transitions)
        /\ df_last.rows # <<>> /\ df_current.rows # <<>>) =>
        \A r \in zone_transitions.index \ {All} :
            \A c \in zone_transitions.columns \ {All} :
                zone_transitions.values[<<r, c>>] = Cardinality(WorkersMoving(r, c))

SumOver(S, f(_)) ==
    LET RECURSIVE Sum(_)
        Sum(T) == IF T = {} THEN 0
                  ELSE LET x == CHOOSE y \in T : TRUE IN f(x) + Sum(T \ {x})
    IN  Sum(S)

\* the margins of a matrix are the sums of its cells
MarginsAddUp(m) ==
    LET rowz == m.index \ {All}
        colz == m.columns \ {All}
    IN  /\ \A r \in rowz :
              m.values[<<r, All>>] = SumOver(colz, LAMBDA c : m.values[<<r, c>>])
        /\ \A c \in colz :
              m.values[<<All, c>>] = SumOver(rowz, LAMBDA r : m.values[<<r, c>>])
        /\ m.index # {} =>
              m.values[<<All, All>>]
                  = SumOver(rowz, LAMBDA r : SumOver(colz, LAMBDA c : m.values[<<r, c>>]))

\* C8: the matrix has one row per zone observed in the last-period table and
\* one column per zone observed in the current-period table, its margins are
\* the sums of its cells, and two tables of 3 workers each, all in Zone 2,
\* give a 1x1 matrix with cell 3 and margins 3.
C8_Original ==
    (Tabulated /\ IsMatrix(zone_transitions)
        /\ df_last.rows # <<>> /\ df_current.rows # <<>>) =>
        /\ zone_transitions.index \ {All} = ZonesOf(df_last)
        /\ zone_transitions.columns \ {All} = ZonesOf(df_current)
        /\ MarginsAddUp(zone_transitions)
        /\ (/\ Len(df_last.rows) = 3 /\ ZonesOf(df_last) = {Zone2}
            /\ Len(df_current.rows) = 3 /\ ZonesOf(df_current) = {Zone2}) =>
              /\ zone_transitions.index = {Zone2, All}
              /\ zone_transitions.columns = {Zone2, All}
              /\ \A rc \in DOMAIN zone_transitions.values :
                    zone_transitions.values[rc] = 3

EmptyOrUnclassified(df) == IsFrame(df) /\ (df.rows = <<>> \/ "Zone" \notin df.columns)

\* C9: the result is None whenever either table is empty or has no Zone column.
C9_Original ==
    (Tabulated /\ (EmptyOrUnclassified(df_last) \/ EmptyOrUnclassified(df_current))) =>
        zone_transitions = None

\* --- calculate_performance_trends (Spec)
Summarised == pc \in {"transitions", "report"} /\ trends # Unset /\ IsFrame(comparison_df)

\* C10: on a comparison table with rows, improved_overall is the number of
\* rows whose rate rose and whose idle-time fell (both strictly), and
\* zone_stability is 100 times the fraction of rows whose current zone is
\* their last zone, between 0 and 100.
C10_Trends ==
    (Summarised /\ comparison_df.rows # <<>>) =>
        LET rows == comparison_df.rows
            improved == {k \in 1..Len(rows) :
                            /\ rows[k].cells["Current_Rate"].v > rows[k].cells["Last_Rate"].v
                            /\ rows[k].cells["Current_UIT"].v < rows[k].cells["Last_UIT"].v}
            stable == {k \in 1..Len(rows) : ~rows[k].cells["Zone_Changed"]}
        IN  /\ trends # None
            /\ trends.improved_overall = Cardinality(improved)
            /\ trends.zone_stability.den > 0
            /\ trends.zone_stability.num * Len(rows)
                  = 100 * Cardinality(stable) * trends.zone_stability.den
            /\ 0 <= trends.zone_stability.num
            /\ trends.zone_stability.num <= 100 * trends.zone_stability.den

\* trends of a two-row comparison: one row improved on both metrics, the
\* other only lowered its idle-time at an unchanged rate and is not counted
C10_Witness ==
    /\ Summarised
    /\ Len(comparison_df.rows) = 2
    /\ trends.improved_overall = 1
    /\ \E k \in RowsOf(comparison_df) :
          /\ comparison_df.rows[k].cells["Rate_Change"].v = 0
          /\ comparison_df.rows[k].cells["UIT_Change"].v < 0


\* C11 (as stated): on a comparison table with no rows,
\* calculate_performance_trends returns None, so that display_trend_analysis
\* shows no metric.  The code has no test for emptiness: it returns a dict of
\* NaN means, which is truthy, and the metrics are drawn.
C11_Original ==
    (Summarised /\ comparison_df.rows = <<>>) => trends = None

\* ------------------------------------------------------------------- C12
Reported == pc \in {"export", "done"} /\ worker_report # Unset /\ IsFrame(comparison_df)
RowsOfWorker(df, id) == {i \in RowsOf(df) : df.rows[i].cells["ID"] = id}
FirstRowOf(df, id) ==
    CHOOSE i \in RowsOfWorker(df, id) : \A j \in RowsOfWorker(df, id) : i <= j
ReportErrors == {i \in 1..Len(messages) : messages[i].what = "report"}

\* C12: generate_individual_report(worker_id, comparison) returns None,
\* without an error, when no row has the id; otherwise it returns the zones
\* and the changes of the first row with the id, and its improvement areas
\* hold 'Rate' exactly when Rate_Change < 0 and 'UIT' exactly when
\* UIT_Change > 0 (a change of 0 adds nothing).
C12_IndividualReport ==
    Reported =>
        /\ ReportErrors = {}
        /\ IF RowsOfWorker(comparison_df, selected_worker) = {}
           THEN worker_report = None
           ELSE LET row == comparison_df.rows[FirstRowOf(comparison_df, selected_worker)].cells
                    areas == Range(worker_report.Improvement_Areas)
                IN  /\ worker_report # None
                    /\ worker_report.ID = selected_worker
                    /\ worker_report.Current_Zone = row["Zone"]
                    /\ worker_report.Previous_Zone = row["Last_Zone"]
                    /\ worker_report.Rate_Change = row["Rate_Change"]
                    /\ worker_report.UIT_Change = row["UIT_Change"]
                    /\ areas \subseteq {"Rate", "UIT"}
                    /\ ("Rate" \in areas) <=> (row["Rate_Change"].v < 0)
                    /\ ("UIT" \in areas) <=> (row["UIT_Change"].v > 0)

\* a worker with two rows is reported from the first one: the rate did not
\* change and the idle-time went up there, while the second row has a lower
\* rate
C12_Witness ==
    /\ Reported
    /\ worker_report # None
    /\ Cardinality(RowsOfWorker(comparison_df, selected_worker)) = 2
    /\ worker_report.Rate_Change = Num(0)
    /\ worker_report.Improvement_Areas = <<"UIT">>
    /\ \E i \in RowsOfWorker(comparison_df, selected_worker) :
          comparison_df.rows[i].cells["Rate_Change"].v < 0

\* ------------------------------------------------------------------- C13
LacksKey(df) == IsFrame(df) /\ ("Zone" \notin df.columns \/ "ID" \notin df.columns)
ComparisonErrors(msgs) == {i \in 1..Len(msgs) : msgs[i].what = "comparison"}

\* C13: create_comparison_dataframe leaves its two inputs as they are, and
\* whenever one of them lacks the Zone column or the worker-id column the
\* merge fails: one error is shown and the result is None, never a table.
C13_MergeFailure ==
    [][(pc = "merge" /\ pc' # "merge") =>
          /\ df_last' = df_last
          /\ df_current' = df_current
          /\ (LacksKey(df_last) \/ LacksKey(df_current)) =>
                /\ comparison_df' = None
                /\ Cardinality(ComparisonErrors(messages')) =
                       Cardinality(ComparisonErrors(messages)) + 1]_vars

\* the merge of a classified last period with rows and a current period
\* without its Zone column has failed
C13_Witness ==
    /\ pc = "finish"
    /\ comparison_df = None
    /\ Classified(df_last) /\ "ID" \in df_last.columns /\ df_last.rows # <<>>
    /\ IsFrame(df_current) /\ "Zone" \notin df_current.columns
    /\ "ID" \in df_current.columns /\ df_current.rows # <<>>
    /\ ComparisonErrors(messages) # {}

\* ------------------------------------------------------------------- C14
\* the order of the stages of a pass, with the ways out of it
StageOrder ==
    {<<"done", "load_files">>, <<"load_files", "validate_last">>, <<"load_files", "done">>,
     <<"validate_last", "validate_current">>,
     <<"validate_current", "classify_last">>, <<"validate_current", "done">>,
     <<"classify_last", "classify_current">>,
     <<"classify_current", "merge">>, <<"classify_current", "done">>,
     <<"merge", "trends">>, <<"merge", "finish">>,
     <<"trends", "transitions">>, <<"transitions", "report">>, <<"report", "export">>,
     <<"export", "finish">>, <<"finish", "done">>}
Shown(what) == \E i \in 1..Len(messages) : messages[i].what = what /\ messages[i].level = "error"
NoAnalysis ==
    trends = Unset /\ zone_transitions = Unset /\ worker_report = Unset /\ ~exported
NothingAfterValidation ==
    ~Classified(df_last) /\ ~Classified(df_current) /\ comparison_df = Unset /\ NoAnalysis

\* C14: a pass of main() runs validate(last), validate(current), the two
\* classifications, the merge and then the analyses, in this order.  When
\* the validation of a period fails the pass ends there, with an error shown
\* and no classification, merge, trend or transition analysis, report or
\* export; when the merge fails an error is shown and no analysis, report or
\* export runs.  The session goes on: the next pass can start.
C14_StageOrder ==
    [][/\ pc' # pc => <<pc, pc'>> \in StageOrder
       /\ (pc = "validate_current" /\ pc' # pc) =>
             IF df_last = None \/ df_current' = None
             THEN pc' = "done" /\ Shown("validation")' /\ NothingAfterValidation'
             ELSE pc' = "classify_last" /\ ~Shown("validation")'
       /\ (pc = "merge" /\ pc' # pc) =>
             IF comparison_df' = None
             THEN pc' = "finish" /\ Shown("comparison")' /\ NoAnalysis'
             ELSE pc' = "trends"
       /\ Shown("validation") => (pc = "done" /\ NothingAfterValidation)
       /\ comparison_df = None => (pc \in {"finish", "done"} /\ NoAnalysis)
       /\ pc = "done" => ENABLED NewPass]_vars

\* a pass was aborted earlier in the session, and this pass has run every
\* stage up to the export on a merged table with rows
C14_Witness ==
    /\ pass_aborted
    /\ pc = "finish"
    /\ exported
    /\ IsFrame(comparison_df) /\ comparison_df.rows # <<>>
    /\ trends # Unset /\ zone_transitions # Unset /\ worker_report # Unset
    /\ messages = <<>>

\* ------------------------------------------------------------------- C15
Values(cellseq) == {i \in 1..Len(cellseq) : ~cellseq[i].nan}
\* m is the median of the values: NaN without a value, else at most half of
\* them are below it and at most half above, and it is the mean of the
\* nearest values on its two sides
IsMedian(m, cellseq) ==
    IF Values(cellseq) = {} THEN m.nan
    ELSE /\ ~m.nan
         /\ 2 * Cardinality({i \in Values(cellseq) : cellseq[i].v < m.v})
               <= Cardinality(Values(cellseq))
         /\ 2 * Cardinality({i \in Values(cellseq) : cellseq[i].v > m.v})
               <= Cardinality(Values(cellseq))
         /\ \E i, j \in Values(cellseq) :
               /\ cellseq[i].v <= m.v /\ m.v <= cellseq[j].v
               /\ 2 * m.v = cellseq[i].v + cellseq[j].v
               /\ \A k \in Values(cellseq) :
                     cellseq[k].v <= cellseq[i].v \/ cellseq[k].v >= cellseq[j].v
ZonedBy(df, rate, uit) ==
    \A i \in RowsOf(df) :
        LET high_rate == df.rows[i].cells["RATES"].v > rate
            high_idle == df.rows[i].cells["UIT"].v > uit
            zone == df.rows[i].cells["Zone"]
        IN  /\ (zone = Zone1) <=> (high_rate /\ high_idle)
            /\ (zone = Zone2) <=> (high_rate /\ ~high_idle)
            /\ (zone = Zone3) <=> (~high_rate /\ high_idle)
            /\ (zone = Zone4) <=> (~high_rate /\ ~high_idle)

\* the exact medians of the values, and their rounding to two decimals
Medians(cellseq) ==
    {m \in {(cellseq[i].v + cellseq[j].v) \div 2 : i, j \in Values(cellseq)} :
        IsMedian(Num(m), cellseq)}
IsRoundedMedian(d, cellseq) ==
    IF Values(cellseq) = {} THEN d.nan
    ELSE /\ ~d.nan
         /\ d.v % 10 = 0
         /\ \E m \in Medians(cellseq) : d.v - m <= 5 /\ m - d.v <= 5
Offered == configured /\ IsFrame(df_current) /\ reference_defaults # Unset
\* both tables carry the zones of the pair (user_rate, user_uit), and a
\* comparison row with the same rate and idle-time in both periods has
\* Zone_Changed false
SameReferences ==
    /\ Classified(df_last) => ZonedBy(df_last, user_rate, user_uit)
    /\ Classified(df_current) => ZonedBy(df_current, user_rate, user_uit)
    /\ IsFrame(comparison_df) =>
          \A i \in RowsOf(comparison_df) :
              LET row == comparison_df.rows[i].cells
              IN  (row["Last_Rate"] = row["Current_Rate"] /\ row["Last_UIT"] = row["Current_UIT"])
                      => ~row["Zone_Changed"]

C16_FlagLatch ==
    /\ ~data_processed
    /\ [][/\ data_processed => data_processed'
          /\ data_processed' # data_processed =>
                /\ pc = "finish" /\ pc' = "done"
                /\ last_week_file # None /\ current_week_file # None
                /\ validate_and_process_data(last_week_file, "last_week").df # None
                /\ validate_and_process_data(current_week_file, "current_week").df # None
                /\ ~Shown("validation") /\ ~Shown("processing")
          /\ (pc' = "done" /\ pc \notin {"finish", "done"}) =>
                data_processed' = data_processed]_vars

\* the flag was set by an earlier pass, and the pass that just ended on a
\* failed validation has left it set
C16_Witness ==
    /\ data_processed
    /\ pc = "done"
    /\ Shown("validation")

====
